---- MODULE Spec2Model ----
(***************************************************************************)
(* Engine Atlas: the data-cleaning and feature-engineering pipeline of     *)
(* src/src/engine_atlas/data_processing.py.                                *)
(*                                                                         *)
(* Text is a sequence of one-character strings, so that the regular        *)
(* expressions of the source act on characters.  A table (DataFrame) is a  *)
(* record [columns |-> sequence of names, data |-> sequence of columns],   *)
(* data[i] being the sequence of cells of column i.                        *)
(***************************************************************************)
EXTENDS Integers, Sequences, FiniteSets, TLC

VARIABLES pc, arg, ret

vars == <<pc, arg, ret>>

\* The value of ret before a function has returned.
NoValue == [k |-> "novalue"]

(***************************************************************************)
(* Bounds of the model.                                                    *)
(***************************************************************************)
\* Longest raw column name drawn over RawAlphabet.
MaxNameLen == 4
\* Most columns of a table of named headers.
MaxCols == 2

(***************************************************************************)
(* Characters.                                                             *)
(***************************************************************************)
UpperCase == <<"A", "B", "C", "D", "E", "F", "G", "H", "I", "J", "K", "L", "M",
               "N", "O", "P", "Q", "R", "S", "T", "U", "V", "W", "X", "Y", "Z">>
LowerCase == <<"a", "b", "c", "d", "e", "f", "g", "h", "i", "j", "k", "l", "m",
               "n", "o", "p", "q", "r", "s", "t", "u", "v", "w", "x", "y", "z">>
Digits == <<"0", "1", "2", "3", "4", "5", "6", "7", "8", "9">>

Range(s) == {s[i] : i \in 1..Len(s)}

\* What str.strip() strips and the regex class \s matches.
Whitespace == {" ", "\t", "\n", "\r", "\f"}

\* str.lower() on one character.
LowerChar(c) ==
  IF c \in Range(UpperCase)
    THEN LowerCase[CHOOSE i \in 1..26 : UpperCase[i] = c]
    ELSE c

lower(s) == [i \in 1..Len(s) |-> LowerChar(s[i])]

\* str.strip(): drop the leading and the trailing whitespace.
RECURSIVE lstrip(_)
lstrip(s) ==
  IF s # <<>> /\ Head(s) \in Whitespace THEN lstrip(Tail(s)) ELSE s

RECURSIVE rstrip(_)
rstrip(s) ==
  IF s # <<>> /\ s[Len(s)] \in Whitespace
    THEN rstrip(SubSeq(s, 1, Len(s) - 1))
    ELSE s

strip(s) == rstrip(lstrip(s))

(***************************************************************************)
(* re.sub(class+, rep, s) for a character class: every maximal run of at   *)
(* least min characters of the class is replaced by rep.                   *)
(***************************************************************************)
RECURSIVE RunEnd(_, _, _)
\* The first index after the run of class characters that starts at i.
RunEnd(s, i, class) ==
  IF i <= Len(s) /\ s[i] \in class THEN RunEnd(s, i + 1, class) ELSE i

RECURSIVE SubRunsFrom(_, _, _, _, _)
SubRunsFrom(s, i, class, min, rep) ==
  IF i > Len(s) THEN <<>>
  ELSE LET j == RunEnd(s, i, class)
       IN  IF j - i >= min
             THEN rep \o SubRunsFrom(s, j, class, min, rep)
             ELSE <<s[i]>> \o SubRunsFrom(s, i + 1, class, min, rep)

SubRuns(s, class, min, rep) == SubRunsFrom(s, 1, class, min, rep)

\* The class of r"[\\/]+": a backslash or a slash.
SeparatorClass == {"\\", "/"}

\* The class of r"[\s\-]+": whitespace or a hyphen.
SpaceHyphenClass == Whitespace \cup {"-"}

\* r"[()\\[\\]]" is the class [()\\[\\] followed by a literal "]": the
\* class holds "(", ")", a backslash and "[", and closes at the first "]".
BracketClass == {"(", ")", "\\", "["}

RECURSIVE SubBracketFrom(_, _)
\* re.sub(r"[()\\[\\]]", "", s): delete, left to right and without overlap,
\* every class character that is directly followed by "]", with that "]".
SubBracketFrom(s, i) ==
  IF i > Len(s) THEN <<>>
  ELSE IF i < Len(s) /\ s[i] \in BracketClass /\ s[i + 1] = "]"
         THEN SubBracketFrom(s, i + 2)
         ELSE <<s[i]>> \o SubBracketFrom(s, i + 1)

SubBracket(s) == SubBracketFrom(s, 1)

\* standardize_columns.to_snake
to_snake(name) ==
  LET n1 == lower(strip(name))
      n2 == SubRuns(n1, SeparatorClass, 1, <<"_">>)
      n3 == SubBracket(n2)
      n4 == SubRuns(n3, SpaceHyphenClass, 1, <<"_">>)
      n5 == SubRuns(n4, {"_"}, 2, <<"_">>)
  IN  n5

(***************************************************************************)
(* Column names the two rename rules speak of.                             *)
(***************************************************************************)
modle == <<"m", "o", "d", "l", "e">>
model == <<"m", "o", "d", "e", "l">>
accel_trunc == <<"a", "c", "c", "e", "l", "e", "r", "a", "t", "i", "o", "n", "_",
                 "0", "_", "1", "0", "0", "_", "k", "m", "_", "h", "_">>
accel_full == accel_trunc \o <<"s">>

\* df.rename(columns={old: new}): every column named old is renamed.
rename(columns, old, new) ==
  [i \in 1..Len(columns) |-> IF columns[i] = old THEN new ELSE columns[i]]

\* The rename rule of lines 66-69: old becomes new unless new is a column.
RenameRuleMutant(columns, old, new) ==
  IF old \in Range(columns) THEN rename(columns, old, new) ELSE columns
RenameRule(columns, old, new) ==
  IF old \in Range(columns) /\ new \notin Range(columns)
    THEN rename(columns, old, new)
    ELSE columns

standardize_columns(df) ==
  LET c1 == [i \in 1..Len(df.columns) |-> to_snake(df.columns[i])]
      c2 == RenameRule(c1, modle, model)
      c3 == RenameRule(c2, accel_trunc, accel_full)
  IN  [df EXCEPT !.columns = c3]

(***************************************************************************)
(* Raw tables for the column normalizer.                                   *)
(***************************************************************************)
RawAlphabet == {"a", "B", " ", "-", "_", "/", "\\", "(", ")", "[", "]"}

RECURSIVE StringsUpTo(_, _)
\* Every text of at most n characters of the alphabet.
StringsUpTo(alphabet, n) ==
  IF n = 0 THEN {<<>>}
  ELSE LET shorter == StringsUpTo(alphabet, n - 1)
       IN  shorter \cup {Append(s, c) : s \in shorter, c \in alphabet}

\* Headers of the raw data set and their variants.
RawHeaders ==
  { <<"M", "o", "d", "l", "e">>, <<"M", "o", "d", "e", "l">>, model, modle,
    <<"M", "a", "k", "e">>, <<"m", "a", "k", "e">>, <<" ", "M", "A", "K", "E">>,
    accel_trunc, accel_full,
    <<"E", "n", "g", "i", "n", "e", " ", "(", "H", "P", ")">>,
    <<"C", "O", "2", " ", "[", "g", "/", "k", "m", "]">> }

\* A table with the given column names and no rows.
EmptyTable(columns) ==
  [columns |-> columns, data |-> [i \in 1..Len(columns) |-> <<>>]]

SeqsOfLen(S, n) == [1..n -> S]

\* Tables of one column named over RawAlphabet and tables of named headers.
ColumnTables(maxLen, maxCols) ==
  {EmptyTable(<<name>>) : name \in StringsUpTo(RawAlphabet, maxLen)}
  \cup UNION {{EmptyTable(cs) : cs \in SeqsOfLen(RawHeaders, n)} : n \in 1..maxCols}

(***************************************************************************)
(* The column normalizer, run on a raw table and again on its own output.  *)
(***************************************************************************)
InitColumns ==
  /\ pc = "standardize_columns"
  /\ arg \in ColumnTables(MaxNameLen, MaxCols)
  /\ ret = NoValue

StandardizeColumns ==
  /\ pc = "standardize_columns"
  /\ ret' = standardize_columns(arg)
  /\ pc' = "standardized"
  /\ UNCHANGED arg

\* The output of the first run is normalized again.
RestandardizeColumns ==
  /\ pc = "standardized"
  /\ arg' = ret
  /\ ret' = standardize_columns(ret)
  /\ pc' = "restandardized"

NextColumns == StandardizeColumns \/ RestandardizeColumns

SpecColumns == InitColumns /\ [][NextColumns]_vars

(***************************************************************************)
(* Properties of the column normalizer.                                    *)
(***************************************************************************)
Distinct(s) == \A i, j \in 1..Len(s) : i # j => s[i] # s[j]

\* The names of a table after to_snake alone, before the rename rules.
SnakeNames(df) == [i \in 1..Len(df.columns) |-> to_snake(df.columns[i])]

HasRun(s, class, n) ==
  \E i \in 1..Len(s) : RunEnd(s, i, class) - i >= n

\* A name in the canonical form of the contract of section 4.1.
Canonical(name) ==
  /\ Range(name) \cap Range(UpperCase) = {}
  /\ name = strip(name)
  /\ Range(name) \cap {"/", "\\", "(", ")", "[", "]", "-"} = {}
  /\ Range(name) \cap Whitespace = {}
  /\ ~HasRun(name, {"_"}, 2)

\* C1: standardize_columns is idempotent: normalizing the output of
\* standardize_columns again yields exactly the same column names.
C1_Idempotent ==
  pc = "restandardized" => ret.columns = arg.columns

\* C2 as stated: when the raw column names are pairwise distinct, the output
\* names are pairwise distinct and no variant (modle, the truncated
\* acceleration name) stands beside its canonical counterpart.
C2_DistinctRawGivesDistinct ==
  (pc = "standardized" /\ Distinct(arg.columns)) =>
    /\ Distinct(ret.columns)
    /\ ~(modle \in Range(ret.columns) /\ model \in Range(ret.columns))
    /\ ~(accel_trunc \in Range(ret.columns) /\ accel_full \in Range(ret.columns))

\* C2 amended: when the column names are pairwise distinct after to_snake,
\* the output names are pairwise distinct, and a variant remains in the
\* output exactly when to_snake gave both the variant and its canonical
\* counterpart (the rename is skipped then; otherwise the variant is renamed).
C2_DistinctSnakeGivesDistinct ==
  (pc = "standardized" /\ Distinct(SnakeNames(arg))) =>
    /\ Distinct(ret.columns)
    /\ modle \in Range(ret.columns)
         <=> {modle, model} \subseteq Range(SnakeNames(arg))
    /\ accel_trunc \in Range(ret.columns)
         <=> {accel_trunc, accel_full} \subseteq Range(SnakeNames(arg))

\* A table of two columns, distinct after to_snake, whose misspelt column was
\* renamed by the first rule.
C2_Witness ==
  /\ pc = "standardized"
  /\ Len(arg.columns) = 2
  /\ Distinct(SnakeNames(arg))
  /\ modle \in Range(SnakeNames(arg))
  /\ model \in Range(ret.columns)
  /\ modle \notin Range(ret.columns)

\* C3: every column name produced by standardize_columns is canonical: no
\* uppercase letter, no surrounding whitespace, no slash or backslash, no
\* parenthesis or square bracket, no whitespace or hyphen, no doubled
\* underscore.
C3_OutputCanonical ==
  pc = "standardized" =>
    \A i \in 1..Len(ret.columns) : Canonical(ret.columns[i])

(***************************************************************************)
(* Numbers.  A float is the exact real (n / d) * pi^p with d > 0 and n, d   *)
(* coprime, or NaN, or an infinity; an int is a float with d = 1, p = 0     *)
(* that prints without a decimal point.  None is Python's None.            *)
(***************************************************************************)
RECURSIVE Gcd(_, _)
Gcd(a, b) == IF b = 0 THEN a ELSE Gcd(b, a % b)

Abs(x) == IF x < 0 THEN -x ELSE x

NaN == [k |-> "nan"]
None == [k |-> "none"]
Inf(sign) == [k |-> "inf", sign |-> sign]

\* The float (n / d) * pi^p in lowest terms.
Float(n, d, p) ==
  IF n = 0 THEN [k |-> "float", n |-> 0, d |-> 1, p |-> 0]
  ELSE LET g == Gcd(Abs(n), Abs(d))
           sgn == IF d < 0 THEN -1 ELSE 1
       IN  [k |-> "float", n |-> sgn * (n \div g), d |-> sgn * (d \div g), p |-> p]

Int64(v) == [k |-> "int", n |-> v, d |-> 1, p |-> 0]

Text(s) == [k |-> "str", s |-> s]

IsNum(c) == c.k \in {"int", "float"}
IsText(c) == c.k = "str"
\* pandas isna(): NaN and None are missing-value markers.
IsMissing(c) == c.k \in {"nan", "none"}

\* An int cell as the float a float64 column holds.
ToFloat(c) == IF c.k = "int" THEN Float(c.n, 1, 0) ELSE c

\* Two numeric cells hold the same number.
SameNumber(a, b) == IsNum(a) /\ IsNum(b) /\ ToFloat(a) = ToFloat(b)

(***************************************************************************)
(* Tables with named columns.                                              *)
(***************************************************************************)
HasCol(df, c) == c \in Range(df.columns)

ColIdx(df, c) == CHOOSE i \in 1..Len(df.columns) : df.columns[i] = c

Col(df, c) == df.data[ColIdx(df, c)]

NRows(df) == IF df.data = <<>> THEN 0 ELSE Len(df.data[1])

\* df[c] = cells: replaces column c, or appends it as the last column.
SetCol(df, c, cells) ==
  IF HasCol(df, c)
    THEN [df EXCEPT !.data[ColIdx(df, c)] = cells]
    ELSE [columns |-> Append(df.columns, c), data |-> Append(df.data, cells)]

(***************************************************************************)
(* Numbers as text, and text as numbers.                                   *)
(***************************************************************************)
Pow10(k) == IF k = 0 THEN 1 ELSE IF k = 1 THEN 10 ELSE IF k = 2 THEN 100
            ELSE IF k = 3 THEN 1000 ELSE IF k = 4 THEN 10000 ELSE 100000

RECURSIVE NatStr(_)
\* The decimal digits of a natural number.
NatStr(v) ==
  IF v < 10 THEN <<Digits[v + 1]>>
  ELSE Append(NatStr(v \div 10), Digits[(v % 10) + 1])

IntStr(v) == IF v < 0 THEN <<"-">> \o NatStr(-v) ELSE NatStr(v)

\* repr() of a float with at most two decimals: "2.0", "1.5", "-0.25".
FloatStr(c) ==
  LET h == (Abs(c.n) * 100) \div c.d
      frac == h % 100
      sign == IF c.n < 0 THEN <<"-">> ELSE <<>>
  IN  sign \o NatStr(h \div 100) \o <<".">> \o
      (IF frac % 10 = 0 THEN NatStr(frac \div 10)
       ELSE <<Digits[(frac \div 10) + 1], Digits[(frac % 10) + 1]>>)

\* str(cell), as Series.astype(str) gives it.
CellStr(c) ==
  CASE c.k = "str" -> c.s
    [] c.k = "int" -> IntStr(c.n)
    [] c.k = "float" -> FloatStr(c)
    [] c.k = "nan" -> <<"n", "a", "n">>
    [] c.k = "none" -> <<"N", "o", "n", "e">>
    [] c.k = "inf" -> IF c.sign < 0 THEN <<"-", "i", "n", "f">> ELSE <<"i", "n", "f">>

DigitVal(c) == (CHOOSE i \in 1..10 : Digits[i] = c) - 1

IsDigit(c) == c \in Range(Digits)

RECURSIVE DigitsVal(_)
DigitsVal(s) ==
  IF s = <<>> THEN 0
  ELSE DigitsVal(SubSeq(s, 1, Len(s) - 1)) * 10 + DigitVal(s[Len(s)])

AllDigits(s) == \A i \in 1..Len(s) : IsDigit(s[i])

\* pd.to_numeric(errors="coerce") on one text of digits, points, signs and
\* characters that belong to no number: an optional minus sign, then digits
\* with at most one decimal point and at least one digit; all digits give an
\* int, a decimal point gives a float, anything else gives NaN.
to_numeric_text(s) ==
  LET neg == s # <<>> /\ Head(s) = "-"
      body == IF neg THEN Tail(s) ELSE s
      sgn == IF neg THEN -1 ELSE 1
      dots == {i \in 1..Len(body) : body[i] = "."}
  IN  IF body = <<>> THEN NaN
      ELSE IF AllDigits(body) THEN Int64(sgn * DigitsVal(body))
      ELSE IF Cardinality(dots) = 1
        THEN LET i == CHOOSE x \in dots : TRUE
                 whole == SubSeq(body, 1, i - 1)
                 frac == SubSeq(body, i + 1, Len(body))
             IN  IF AllDigits(whole) /\ AllDigits(frac) /\ Len(body) > 1
                   THEN Float(sgn * (DigitsVal(whole) * Pow10(Len(frac)) + DigitsVal(frac)),
                              Pow10(Len(frac)), 0)
                   ELSE NaN
      ELSE NaN

\* pd.to_numeric(errors="coerce") on one cell.
to_numeric_cell(c) ==
  CASE c.k = "str" -> to_numeric_text(c.s)
    [] c.k = "none" -> NaN
    [] OTHER -> c

\* pd.to_numeric(errors="coerce") on a column: int64 when every cell is an
\* int, float64 otherwise.
to_numeric(cells) ==
  LET parsed == [i \in 1..Len(cells) |-> to_numeric_cell(cells[i])]
  IN  IF \A i \in 1..Len(parsed) : parsed[i].k = "int"
        THEN parsed
        ELSE [i \in 1..Len(parsed) |-> ToFloat(parsed[i])]

(***************************************************************************)
(* coerce_numeric                                                          *)
(***************************************************************************)
NUMERIC_COLUMNS ==
  << "year_from", "year_to", "engine_hp", "max_power_kw", "engine_hp_rpm",
     "maximum_torque_n_m", "acceleration_0_100_km_h_s",
     "mixed_fuel_consumption_per_100_km_l", "city_fuel_per_100km_l",
     "highway_fuel_per_100km_l", "co2_emissions_g_km",
     "battery_capacity_kw_per_h", "electric_range_km", "charging_time_h",
     "number_of_cylinders", "valves_per_cylinder" >>

Filter(s, keep) == SelectSeq(s, LAMBDA c : c \in keep)

\* The characters that r"[^0-9.\\-]" leaves: a digit, a point, a backslash
\* and a minus sign, wherever they stand.
NumericKeep == Range(Digits) \cup {".", "\\", "-"}

\* .str.replace(",", "").str.replace(r"[^0-9.\\-]", "", regex=True)
CleanNumericText(s) == Filter(Filter(s, {c \in Range(s) : c # ","}), NumericKeep)

coerce_column(cells) ==
  to_numeric([i \in 1..Len(cells) |-> Text(CleanNumericText(CellStr(cells[i])))])

RECURSIVE coerce_from(_, _, _)
\* The loop of coerce_numeric from the i-th designated column on.
coerce_from(df, cols, i) ==
  IF i > Len(cols) THEN df
  ELSE IF ~HasCol(df, cols[i]) THEN coerce_from(df, cols, i + 1)
  ELSE coerce_from(SetCol(df, cols[i], coerce_column(Col(df, cols[i]))), cols, i + 1)

coerce_numeric(df, cols) == coerce_from(df, cols, 1)

(***************************************************************************)
(* Tables for the numeric coercer: a designated column of one text cell    *)
(* over CoerceAlphabet, and tables of named cells.                         *)
(***************************************************************************)
\* Longest text cell drawn over CoerceAlphabet.
MaxCellLen == 4

CoerceAlphabet == {"1", "0", ",", ".", "-", "\\", "x", " "}

Table(columns, data) == [columns |-> columns, data |-> data]

Toyota == <<"T", "o", "y", "o", "t", "a">>

\* Cells of the raw data set: texts, numbers already parsed, missing values.
NamedCoerceCells ==
  { Text(<<"1", ",", "8", "0", "0">>), Text(<<"4">>), Text(<<"2", ".", "5">>),
    Text(<<"1", "0", "-", "2", "0">>), Text(<<"n", "/", "a">>),
    Float(1800, 1, 0), Float(5, 2, 0), Float(-3, 1, 0), NaN }

CoerceTables(maxLen) ==
  {Table(<<"engine_hp">>, <<<<Text(s)>>>>) : s \in StringsUpTo(CoerceAlphabet, maxLen)}
  \cup {Table(<<"make", "engine_hp", "number_of_cylinders">>,
              <<<<Text(Toyota), Text(Toyota)>>, <<a, b>>, <<b, c>>>>) :
          a \in NamedCoerceCells, b \in NamedCoerceCells, c \in {Text(<<"4">>), NaN}}
  \cup {Table(<<"make", "capacity_cm3">>, <<<<Text(Toyota)>>, <<a>>>>) :
          a \in NamedCoerceCells}

InitCoerce ==
  /\ pc = "coerce_numeric"
  /\ arg \in CoerceTables(MaxCellLen)
  /\ ret = NoValue

CoerceNumeric ==
  /\ pc = "coerce_numeric"
  /\ ret' = coerce_numeric(arg, NUMERIC_COLUMNS)
  /\ pc' = "coerced"
  /\ UNCHANGED arg

NextCoerce == CoerceNumeric

SpecCoerce == InitCoerce /\ [][NextCoerce]_vars

(***************************************************************************)
(* Properties of the numeric coercer.                                      *)
(***************************************************************************)
RECURSIVE KeepNumberChars(_, _)
\* The text with every character deleted that is not a digit, a decimal
\* point or a leading minus sign (a minus sign before which nothing is kept).
KeepNumberChars(s, kept) ==
  IF s = <<>> THEN kept
  ELSE LET c == Head(s)
       IN  IF IsDigit(c) \/ c = "." \/ (c = "-" /\ kept = <<>>)
             THEN KeepNumberChars(Tail(s), Append(kept, c))
             ELSE KeepNumberChars(Tail(s), kept)

\* C4: every text cell of a designated column that is present becomes the
\* number parsed from the cell with its commas and every character other
\* than a digit, a decimal point or a leading minus sign deleted, or the
\* missing marker when that remainder does not parse; never a text; columns
\* that are not designated, and designated columns that are absent, are left
\* alone.
C4_CoerceParsesCleanedText ==
  pc = "coerced" =>
    /\ ret.columns = arg.columns
    /\ \A i \in 1..Len(arg.columns) :
         IF arg.columns[i] \in Range(NUMERIC_COLUMNS)
           THEN \A r \in 1..Len(arg.data[i]) :
                  /\ ~IsText(ret.data[i][r])
                  /\ IsText(arg.data[i][r]) =>
                       LET expect == to_numeric_text(KeepNumberChars(arg.data[i][r].s, <<>>))
                       IN  IF IsNum(expect)
                             THEN SameNumber(ret.data[i][r], expect)
                             ELSE ret.data[i][r] = NaN
           ELSE ret.data[i] = arg.data[i]

(***************************************************************************)
(* clip_outliers                                                           *)
(***************************************************************************)
OUTLIER_BOUNDS ==
  << [col |-> "engine_hp", low |-> 20, high |-> 2000],
     [col |-> "max_power_kw", low |-> 10, high |-> 1500],
     [col |-> "acceleration_0_100_km_h_s", low |-> 1, high |-> 40],
     [col |-> "mixed_fuel_consumption_per_100_km_l", low |-> 1, high |-> 40],
     [col |-> "co2_emissions_g_km", low |-> 0, high |-> 1000],
     [col |-> "number_of_cylinders", low |-> 1, high |-> 16] >>

\* a < b for two rational cells (p = 0).
Less(a, b) == a.n * b.d < b.n * a.d

\* The number v in a cell of the kind of cell c (clip keeps the dtype).
SameKind(c, v) == IF c.k = "int" THEN Int64(v) ELSE Float(v, 1, 0)

\* Series.clip(lower, upper) on one cell: a missing value stays missing.
ClipCellMutant(c, low, high) ==
  IF ~IsNum(c) THEN c
  ELSE IF Less(c, Int64(low)) \/ Less(Int64(high), c) THEN NaN
  ELSE c
ClipCell(c, low, high) ==
  IF ~IsNum(c) THEN c
  ELSE IF Less(c, Int64(low)) THEN SameKind(c, low)
  ELSE IF Less(Int64(high), c) THEN SameKind(c, high)
  ELSE c

clip(cells, low, high) == [i \in 1..Len(cells) |-> ClipCell(cells[i], low, high)]

RECURSIVE clip_from(_, _)
\* The loop of clip_outliers from the i-th entry of OUTLIER_BOUNDS on.
clip_from(df, i) ==
  IF i > Len(OUTLIER_BOUNDS) THEN df
  ELSE LET b == OUTLIER_BOUNDS[i]
       IN  IF HasCol(df, b.col)
             THEN clip_from(SetCol(df, b.col, clip(Col(df, b.col), b.low, b.high)), i + 1)
             ELSE clip_from(df, i + 1)

clip_outliers(df) == clip_from(df, 1)

(***************************************************************************)
(* Tables for the outlier clipper: numeric columns, as coerce_numeric      *)
(* leaves them, with values around the bounds.                             *)
(***************************************************************************)
\* Most rows of a table of the clipper.
MaxClipRows == 2

\* Values at, next to and half a unit beside the two bounds, and NaN.
ClipCells(low, high) ==
  { Float(low - 1, 1, 0), Float(2 * low - 1, 2, 0), Float(low, 1, 0),
    Float(low + 1, 1, 0), Float(high - 1, 1, 0), Float(high, 1, 0),
    Float(2 * high + 1, 2, 0), Float(high + 1, 1, 0), NaN }

ClipTables(maxRows) ==
  UNION {
    UNION {
      {Table(<<"engine_hp_rpm", OUTLIER_BOUNDS[i].col>>,
             <<[r \in 1..n |-> Float(-5, 1, 0)], cells>>) :
         cells \in SeqsOfLen(ClipCells(OUTLIER_BOUNDS[i].low, OUTLIER_BOUNDS[i].high), n)}
      : n \in 1..maxRows}
    : i \in 1..Len(OUTLIER_BOUNDS)}
  \cup {Table(<<"number_of_cylinders">>, <<<<Int64(v)>>>>) : v \in {0, 4, 16, 17}}
  \cup {Table(<<"engine_hp_rpm">>, <<<<Float(9000, 1, 0)>>>>)}

InitClip ==
  /\ pc = "clip_outliers"
  /\ arg \in ClipTables(MaxClipRows)
  /\ ret = NoValue

ClipOutliers ==
  /\ pc = "clip_outliers"
  /\ ret' = clip_outliers(arg)
  /\ pc' = "clipped"
  /\ UNCHANGED arg

NextClip == ClipOutliers

SpecClip == InitClip /\ [][NextClip]_vars

(***************************************************************************)
(* Properties of the outlier clipper.                                      *)
(***************************************************************************)
IsBounded(c) == \E i \in 1..Len(OUTLIER_BOUNDS) : OUTLIER_BOUNDS[i].col = c

BoundsOf(c) == OUTLIER_BOUNDS[CHOOSE i \in 1..Len(OUTLIER_BOUNDS) : OUTLIER_BOUNDS[i].col = c]

\* C5: clip_outliers clamps and never removes: in every bounded column a
\* value below low becomes low, a value above high becomes high, any other
\* value stays, so low <= value <= high afterwards; a missing value stays
\* missing; the table keeps its columns and its rows.
C5_ClipClamps ==
  pc = "clipped" =>
    /\ ret.columns = arg.columns
    /\ \A i \in 1..Len(arg.columns) :
         /\ Len(ret.data[i]) = Len(arg.data[i])
         /\ IF IsBounded(arg.columns[i])
              THEN LET b == BoundsOf(arg.columns[i])
                   IN  \A r \in 1..Len(arg.data[i]) :
                         LET v == arg.data[i][r]
                             w == ret.data[i][r]
                         IN  IF IsMissing(v) THEN IsMissing(w)
                             ELSE /\ IsNum(w)
                                  /\ ~Less(w, Int64(b.low))
                                  /\ ~Less(Int64(b.high), w)
                                  /\ Less(v, Int64(b.low)) => SameNumber(w, Int64(b.low))
                                  /\ Less(Int64(b.high), v) => SameNumber(w, Int64(b.high))
                                  /\ (~Less(v, Int64(b.low)) /\ ~Less(Int64(b.high), v))
                                       => w = v
              ELSE ret.data[i] = arg.data[i]

\* A two-row table whose bounded column held a value above its upper bound,
\* now clamped, and a missing value.
C5_Witness ==
  /\ pc = "clipped"
  /\ HasCol(arg, "engine_hp")
  /\ Col(arg, "engine_hp") = <<Float(2001, 1, 0), NaN>>
  /\ Col(ret, "engine_hp") = <<Float(2000, 1, 0), NaN>>

(***************************************************************************)
(* parse_bore_stroke                                                       *)
(***************************************************************************)
\* The end of the token of r"[0-9]+(?:\\.[0-9]+)?" that starts at the digit
\* s[i]: the run of digits, then, when a backslash, any one character other
\* than a newline and at least one digit follow, these too.  (In the raw
\* string "\\" is a literal backslash and "." is any character.)
CodeTokenEnd(s, i) ==
  LET j == RunEnd(s, i, Range(Digits))
  IN  IF /\ j + 2 <= Len(s)
         /\ s[j] = "\\"
         /\ s[j + 1] # "\n"
         /\ IsDigit(s[j + 2])
        THEN RunEnd(s, j + 2, Range(Digits))
        ELSE j

RECURSIVE findall_from(_, _)
\* re.findall(r"[0-9]+(?:\\.[0-9]+)?", s) from index i on.
findall_from(s, i) ==
  IF i > Len(s) THEN <<>>
  ELSE IF IsDigit(s[i])
         THEN LET j == CodeTokenEnd(s, i)
              IN  <<SubSeq(s, i, j - 1)>> \o findall_from(s, j)
         ELSE findall_from(s, i + 1)

findall_numbers(s) == findall_from(s, 1)

Raise(exc) == [k |-> "raise", exc |-> exc]

Raised(v) == "k" \in DOMAIN v /\ v.k = "raise"

\* float(token) on a token of findall_numbers: digits give their number, a
\* token holding a backslash raises ValueError.
float_of(token) ==
  IF AllDigits(token) THEN Float(DigitsVal(token), 1, 0) ELSE Raise("ValueError")

Pair(bore, stroke) == [k |-> "pair", bore |-> bore, stroke |-> stroke]

parse_bore_stroke(value) ==
  IF ~IsText(value) THEN Pair(None, None)
  ELSE LET numbers == findall_numbers(value.s)
       IN  IF Len(numbers) >= 2
             THEN LET b == float_of(numbers[1])
                      t == float_of(numbers[2])
                  IN  IF Raised(b) THEN b ELSE IF Raised(t) THEN t ELSE Pair(b, t)
           ELSE IF Len(numbers) = 1
             THEN LET b == float_of(numbers[1])
                  IN  IF Raised(b) THEN b ELSE Pair(b, None)
           ELSE Pair(None, None)

(***************************************************************************)
(* Values for parse_bore_stroke: texts over BoreAlphabet, the combined     *)
(* bore x stroke texts of the data set, and values that are no text.       *)
(***************************************************************************)
\* Longest bore x stroke text drawn over BoreAlphabet.
MaxBoreLen == 4

BoreAlphabet == {"8", "5", ".", "x", " ", "\\"}

BoreValues(maxLen) ==
  {Text(s) : s \in StringsUpTo(BoreAlphabet, maxLen)}
  \cup { Text(<<"8", "6", ".", "5", " ", "x", " ", "9", "0", ".", "2">>),
         Text(<<"8", "6", " ", "x", " ", "8", "6">>), NaN, None, Float(86, 1, 0) }

InitParse ==
  /\ pc = "parse_bore_stroke"
  /\ arg \in BoreValues(MaxBoreLen)
  /\ ret = NoValue

ParseBoreStroke ==
  /\ pc = "parse_bore_stroke"
  /\ ret' = parse_bore_stroke(arg)
  /\ pc' = "parsed"
  /\ UNCHANGED arg

NextParse == ParseBoreStroke

SpecParse == InitParse /\ [][NextParse]_vars

(***************************************************************************)
(* Properties of parse_bore_stroke.                                        *)
(***************************************************************************)
\* The end of the decimal token that starts at the digit s[i]: digits,
\* optionally followed by "." and digits.
DecimalTokenEnd(s, i) ==
  LET j == RunEnd(s, i, Range(Digits))
  IN  IF j + 1 <= Len(s) /\ s[j] = "." /\ IsDigit(s[j + 1])
        THEN RunEnd(s, j + 1, Range(Digits))
        ELSE j

RECURSIVE DecimalTokensFrom(_, _)
DecimalTokensFrom(s, i) ==
  IF i > Len(s) THEN <<>>
  ELSE IF IsDigit(s[i])
         THEN LET j == DecimalTokenEnd(s, i)
              IN  <<SubSeq(s, i, j - 1)>> \o DecimalTokensFrom(s, j)
         ELSE DecimalTokensFrom(s, i + 1)

DecimalTokens(s) == DecimalTokensFrom(s, 1)

\* C6: parse_bore_stroke returns the first decimal token (digits, optionally
\* followed by "." and digits, as one token) as bore and the second as
\* stroke; one token gives (bore, missing); no token, or a value that is no
\* text, gives (missing, missing).
C6_ParsesDecimalTokens ==
  pc = "parsed" =>
    IF IsText(arg)
      THEN LET tokens == DecimalTokens(arg.s)
               number(t) == ToFloat(to_numeric_text(t))
           IN  /\ ret.k = "pair"
               /\ IF Len(tokens) >= 1
                    THEN ret.bore = number(tokens[1])
                    ELSE IsMissing(ret.bore)
               /\ IF Len(tokens) >= 2
                    THEN ret.stroke = number(tokens[2])
                    ELSE IsMissing(ret.stroke)
      ELSE ret.k = "pair" /\ IsMissing(ret.bore) /\ IsMissing(ret.stroke)

(***************************************************************************)
(* Series helpers of add_engine_features.                                  *)
(***************************************************************************)
\* The dtype inference of Series.apply and of a column built from a list: a
\* column of floats and None becomes float64 (None becomes NaN, an int a
\* float); a column that is all None, or that holds a text, stays as it is.
InferObjects(cells) ==
  IF /\ \E i \in 1..Len(cells) : cells[i].k \in {"float", "nan", "inf"}
     /\ \A i \in 1..Len(cells) : ~IsText(cells[i])
    THEN [i \in 1..Len(cells) |->
            IF cells[i] = None THEN NaN ELSE ToFloat(cells[i])]
    ELSE cells

\* Series.fillna(other): a missing cell takes the cell of other on its row.
fillna(cells, other) ==
  [i \in 1..Len(cells) |-> IF IsMissing(cells[i]) THEN other[i] ELSE cells[i]]

\* x <= 0 on a number; NaN compares False.
LeZero(x) == IsNum(x) /\ x.n <= 0

\* The volume of line 106 in litres: pi * (bore / 2)^2 * stroke * cylinders
\* / 1_000_000; NaN when an operand is NaN.
Volume(b, s, c) ==
  IF b = NaN \/ s = NaN \/ c = NaN THEN NaN
  ELSE Float(b.n * b.n * s.n * c.n, b.d * b.d * s.d * c.d * 4000000, 1)

\* compute_displacement_l: comparing a text with 0 raises TypeError; the
\* conditions of "or" are evaluated left to right, up to the first true one.
ComputeDisplacementMutant(b, s, c) ==
  IF b = None \/ s = None \/ c = None THEN None
  ELSE IF IsText(b) THEN Raise("TypeError")
  ELSE IF IsNum(b) /\ b.n < 0 THEN None
  ELSE IF IsText(s) THEN Raise("TypeError")
  ELSE IF IsNum(s) /\ s.n < 0 THEN None
  ELSE IF IsText(c) THEN Raise("TypeError")
  ELSE IF IsNum(c) /\ c.n < 0 THEN None
  ELSE Volume(b, s, c)
compute_displacement_l(b, s, c) ==
  IF b = None \/ s = None \/ c = None THEN None
  ELSE IF IsText(b) THEN Raise("TypeError")
  ELSE IF LeZero(b) THEN None
  ELSE IF IsText(s) THEN Raise("TypeError")
  ELSE IF LeZero(s) THEN None
  ELSE IF IsText(c) THEN Raise("TypeError")
  ELSE IF LeZero(c) THEN None
  ELSE Volume(b, s, c)

\* x / 1000.0 on a float64 cell.
DivThousand(x) == IF IsNum(x) THEN Float(x.n, x.d * 1000, x.p) ELSE NaN

\* engine_hp / displacement_l on one row, as float64 division: a missing
\* operand gives NaN, 0 / 0 gives NaN, x / 0 gives an infinity.
Divide(x, y) ==
  IF ~IsNum(x) \/ ~IsNum(y) THEN NaN
  ELSE IF y.n = 0 THEN (IF x.n = 0 THEN NaN ELSE Inf(IF x.n < 0 THEN -1 ELSE 1))
  ELSE Float(x.n * y.d, x.d * y.n, x.p - y.p)

(***************************************************************************)
(* Rounding and text of the signature.                                     *)
(***************************************************************************)
\* a / b (b > 0) rounded to the nearest integer, ties to the even one.
Rint(a, b) ==
  LET q == a \div b
      r == a - q * b
  IN  IF 2 * r < b THEN q
      ELSE IF 2 * r > b THEN q + 1
      ELSE IF q % 2 = 0 THEN q ELSE q + 1

\* pi to six decimals, in millionths: enough to round the volumes of the
\* model to two decimals.
PiMicro == 3141592

\* Series.round(2) on one cell.
Round2(x) ==
  IF ~IsNum(x) THEN x
  ELSE IF x.p = 0 THEN Float(Rint(100 * x.n, x.d), 100, 0)
  ELSE LET h == Float(100 * x.n, x.d, 0)
       IN  Float(Rint(h.n * PiMicro, h.d * 1000000), 100, 0)

RECURSIVE ReplaceAll(_, _, _)
\* str.replace(old, new): every occurrence of old, left to right, without
\* overlap.
ReplaceAll(s, old, new) ==
  IF Len(s) < Len(old) THEN s
  ELSE IF SubSeq(s, 1, Len(old)) = old
         THEN new \o ReplaceAll(SubSeq(s, Len(old) + 1, Len(s)), old, new)
         ELSE <<Head(s)>> \o ReplaceAll(Tail(s), old, new)

\* _text_series(col): the column as stripped text, or empty texts.
text_series(df, col) ==
  IF HasCol(df, col)
    THEN [i \in 1..NRows(df) |-> strip(CellStr(Col(df, col)[i]))]
    ELSE [i \in 1..NRows(df) |-> <<>>]

\* The engine_signature of row i (lines 154-165); disp is the
\* displacement_l column after pd.to_numeric.
Signature(df, disp, i) ==
  strip(ReplaceAll(
    text_series(df, "make")[i] \o <<" ">> \o
    text_series(df, "engine_type")[i] \o <<" ">> \o
    text_series(df, "cylinder_layout")[i] \o <<" ">> \o
    text_series(df, "number_of_cylinders")[i] \o <<" ">> \o
    CellStr(Round2(disp[i])) \o <<"L">>,
    <<"n", "a", "n">>, <<>>))

(***************************************************************************)
(* compute_balanced_score.  A z-score is (x - mean) / std with std a square *)
(* root, so a score is kept as an exact real: a surd is a finite set of     *)
(* terms [m, n, d], each the number (n / d) * sqrt(m) with m square-free,   *)
(* n # 0 and at most one term for each m; the empty set is 0.               *)
(***************************************************************************)
Surd(terms) == [k |-> "surd", terms |-> terms]

SurdZero == Surd({})

\* The coefficient <<n, d>> of sqrt(m) in a surd.
Coef(x, m) ==
  IF \E t \in x.terms : t.m = m
    THEN LET t == CHOOSE t \in x.terms : t.m = m IN <<t.n, t.d>>
    ELSE <<0, 1>>

\* The sum of two surds.
SurdAdd(x, y) ==
  Surd({ t \in { LET a == Coef(x, m)
                     b == Coef(y, m)
                     c == Float(a[1] * b[2] + b[1] * a[2], a[2] * b[2], 0)
                 IN  [m |-> m, n |-> c.n, d |-> c.d]
                 : m \in {t.m : t \in x.terms \cup y.terms} } : t.n # 0 })

\* A surd divided by the positive integer c.
SurdDiv(x, c) ==
  Surd({ LET q == Float(t.n, t.d * c, 0) IN [m |-> t.m, n |-> q.n, d |-> q.d]
         : t \in x.terms })

SurdNeg(x) == Surd({[t EXCEPT !.n = -t.n] : t \in x.terms})

RECURSIVE SumSeq(_)
\* The sum of a sequence of integers.
SumSeq(s) == IF s = <<>> THEN 0 ELSE Head(s) + SumSeq(Tail(s))

RECURSIVE LcmDen(_)
\* A common denominator of a sequence of float cells.
LcmDen(s) ==
  IF s = <<>> THEN 1
  ELSE LET r == LcmDen(Tail(s)) IN (Head(s).d * r) \div Gcd(Head(s).d, r)

\* The largest c whose square divides r > 0.
SquarePart(r) ==
  CHOOSE c \in 1..r :
    /\ r % (c * c) = 0
    /\ \A e \in (c + 1)..r : e * e > r \/ r % (e * e) # 0

\* One metric column of compute_balanced_score (lines 182-189): the z-score
\* of every row times the weight; every row gets 0.0 when the standard
\* deviation (ddof = 1, missing values skipped) is 0 or NaN; a missing cell
\* of a column with a standard deviation gets NaN.
ZScores(cells, weight) ==
  LET present == SelectSeq(cells, IsNum)
      k == Len(present)
      den == LcmDen(present)
      a(c) == c.n * (den \div c.d)
      total == SumSeq([j \in 1..k |-> a(present[j])])
      q == SumSeq([j \in 1..k |-> (k * a(present[j]) - total) * (k * a(present[j]) - total)])
  IN  IF k < 2 \/ q = 0
        THEN [i \in 1..Len(cells) |-> SurdZero]
        ELSE LET c == SquarePart((k - 1) * q)
                 m == ((k - 1) * q) \div (c * c)
             IN  [i \in 1..Len(cells) |->
                    IF ~IsNum(cells[i]) THEN NaN
                    ELSE LET z == Float(weight * (k * a(cells[i]) - total) * c, q, 0)
                         IN  IF z.n = 0 THEN SurdZero
                             ELSE Surd({[m |-> m, n |-> z.n, d |-> z.d]})]

\* The metrics of compute_balanced_score and their weights, in order.
METRICS ==
  << [col |-> "engine_hp", weight |-> 1],
     [col |-> "acceleration_0_100_km_h_s", weight |-> -1],
     [col |-> "mixed_fuel_consumption_per_100_km_l", weight |-> -1],
     [col |-> "co2_emissions_g_km", weight |-> -1] >>

RECURSIVE SurdSum(_)
SurdSum(s) == IF s = <<>> THEN SurdZero ELSE SurdAdd(Head(s), SurdSum(Tail(s)))

\* mean(skipna=True) of one row of the stacked z-scores: NaN when the row
\* holds no number.
RowMean(zs) ==
  LET nums == SelectSeq(zs, LAMBDA z : z # NaN)
  IN  IF nums = <<>> THEN NaN ELSE SurdDiv(SurdSum(nums), Len(nums))

compute_balanced_score(df) ==
  LET used == SelectSeq(METRICS, LAMBDA mt : HasCol(df, mt.col))
      zscores == [j \in 1..Len(used) |-> ZScores(Col(df, used[j].col), used[j].weight)]
  IN  IF used = <<>> THEN [i \in 1..NRows(df) |-> NaN]
      ELSE [i \in 1..NRows(df) |-> RowMean([j \in 1..Len(used) |-> zscores[j][i]])]

(***************************************************************************)
(* add_engine_features                                                     *)
(***************************************************************************)
AllNone(n) == [i \in 1..n |-> None]

AnyRaised(s) == \E i \in 1..Len(s) : Raised(s[i])

FirstRaised(s) == s[CHOOSE i \in 1..Len(s) : Raised(s[i]) /\ \A j \in 1..(i - 1) : ~Raised(s[j])]

\* Lines 144-168, once displacement_l is in the table df.
features_tail(df) ==
  LET n == NRows(df)
      df1 == IF HasCol(df, "engine_hp")
               THEN SetCol(df, "hp_per_liter",
                      [i \in 1..n |-> Divide(Col(df, "engine_hp")[i],
                                              Col(df, "displacement_l")[i])])
               ELSE df
      disp == to_numeric(Col(df1, "displacement_l"))
      df2 == SetCol(df1, "engine_signature",
               [i \in 1..n |-> Text(Signature(df1, disp, i))])
  IN  SetCol(df2, "balanced_score", compute_balanced_score(df2))

add_engine_features(df) ==
  LET n == NRows(df)
      df1 == IF HasCol(df, "year_from") THEN SetCol(df, "year", Col(df, "year_from")) ELSE df
      combined == HasCol(df, "cylinder_bore_and_stroke_cycle_mm")
      parsed == IF combined
                  THEN [i \in 1..n |->
                          parse_bore_stroke(Col(df, "cylinder_bore_and_stroke_cycle_mm")[i])]
                  ELSE <<>>
  IN  IF AnyRaised(parsed) THEN FirstRaised(parsed)
      ELSE
      LET bore0 == IF combined THEN InferObjects([i \in 1..n |-> parsed[i].bore])
                   ELSE AllNone(n)
          stroke == IF combined THEN InferObjects([i \in 1..n |-> parsed[i].stroke])
                    ELSE AllNone(n)
          bore == IF HasCol(df, "cylinder_bore_mm")
                    THEN IF combined THEN fillna(bore0, Col(df, "cylinder_bore_mm"))
                         ELSE Col(df, "cylinder_bore_mm")
                    ELSE bore0
          df2 == SetCol(SetCol(df1, "bore_mm", bore), "stroke_mm", stroke)
          cylinders == IF HasCol(df, "number_of_cylinders")
                         THEN Col(df, "number_of_cylinders")
                         ELSE AllNone(n)
          computed == [i \in 1..n |-> compute_displacement_l(bore[i], stroke[i], cylinders[i])]
      IN  IF AnyRaised(computed) THEN FirstRaised(computed)
          ELSE
          LET disp0 == InferObjects(computed)
              disp == IF HasCol(df, "capacity_cm3")
                        THEN LET cap == to_numeric(Col(df, "capacity_cm3"))
                             IN  fillna(disp0, [i \in 1..n |-> DivThousand(cap[i])])
                        ELSE disp0
          IN  features_tail(SetCol(df2, "displacement_l", disp))

(***************************************************************************)
(* Tables for add_engine_features, as clip_outliers leaves them: the       *)
(* designated numeric columns hold numbers and NaN; make, engine_type,     *)
(* cylinder_layout, the combined bore x stroke column, cylinder_bore_mm    *)
(* and capacity_cm3 are not designated and may hold text.                  *)
(***************************************************************************)
\* The cells of a column that a table does not have (a table has a row).
Absent == <<>>

\* The table of the columns whose cells are given: cols[i] is a column name
\* and cells[i] its cells, or Absent for a column the table does not have.
TableOf(cols, cells) ==
  LET keep == SelectSeq([i \in 1..Len(cols) |-> i],
                        LAMBDA i : cells[i] # Absent)
  IN  Table([j \in 1..Len(keep) |-> cols[keep[j]]],
            [j \in 1..Len(keep) |-> cells[keep[j]]])

T80x50 == Text(<<"8", "0", " ", "x", " ", "5", "0">>)
T0x50 == Text(<<"0", " ", "x", " ", "5", "0">>)
T80 == Text(<<"8", "0">>)
Tx == Text(<<"x">>)
T1998 == Text(<<"1", "9", "9", "8">>)
TI4 == Text(<<"I", "4">>)
TInline == Text(<<"I", "n", "l", "i", "n", "e">>)
TInlinePadded == Text(<<" ", "I", "n", "l", "i", "n", "e", " ">>)

DisplacementColumns ==
  <<"cylinder_bore_and_stroke_cycle_mm", "cylinder_bore_mm", "number_of_cylinders",
    "capacity_cm3", "engine_hp">>

\* One-row tables around displacement_l and hp_per_liter.
DisplacementTables1 ==
  { TableOf(DisplacementColumns, <<a, b, c, d, e>>) :
      a \in {Absent, <<NaN>>, <<T80x50>>, <<T80>>, <<T0x50>>, <<Tx>>},
      b \in {Absent, <<NaN>>, <<Float(80, 1, 0)>>, <<Float(0, 1, 0)>>,
             <<Float(-80, 1, 0)>>, <<T80>>},
      c \in {Absent, <<NaN>>, <<Float(0, 1, 0)>>, <<Float(4, 1, 0)>>},
      d \in {Absent, <<NaN>>, <<Int64(0)>>, <<Int64(2000)>>, <<Tx>>, <<T1998>>},
      e \in {Absent, <<NaN>>, <<Float(0, 1, 0)>>, <<Float(100, 1, 0)>>} }

\* Two-row tables: a row with a stroke makes stroke_mm a float64 column.
DisplacementTables2 ==
  { TableOf(DisplacementColumns, <<a, b, c, d, e>>) :
      a \in [1..2 -> {T80x50, T80, NaN}],
      b \in {Absent, <<T80, T80>>, <<Float(80, 1, 0), NaN>>},
      c \in {<<Float(4, 1, 0), Float(8, 1, 0)>>, <<Float(4, 1, 0), NaN>>},
      d \in {Absent, <<Float(2000, 1, 0), Float(0, 1, 0)>>, <<T1998, Tx>>,
             <<Tx, T1998>>},
      e \in {<<Float(100, 1, 0), Float(20, 1, 0)>>} }

SignatureColumns ==
  <<"make", "engine_type", "cylinder_layout", "number_of_cylinders", "capacity_cm3">>

\* One-row tables around engine_signature.
SignatureTables ==
  { TableOf(SignatureColumns, <<a, b, c, d, e>>) :
      a \in {Absent, <<NaN>>, <<Text(Toyota)>>},
      b \in {Absent, <<NaN>>, <<TI4>>},
      c \in {Absent, <<NaN>>, <<TInline>>, <<TInlinePadded>>},
      d \in {Absent, <<NaN>>, <<Int64(4)>>, <<Float(4, 1, 0)>>},
      e \in {Absent, <<NaN>>, <<Int64(2000)>>, <<Int64(1998)>>, <<Int64(0)>>} }

FeatureTables == DisplacementTables1 \cup DisplacementTables2 \cup SignatureTables

InitFeatures ==
  /\ pc = "add_engine_features"
  /\ arg \in FeatureTables
  /\ ret = NoValue

AddEngineFeatures ==
  /\ pc = "add_engine_features"
  /\ ret' = add_engine_features(arg)
  /\ pc' = "featured"
  /\ UNCHANGED arg

NextFeatures == AddEngineFeatures

SpecFeatures == InitFeatures /\ [][NextFeatures]_vars

(***************************************************************************)
(* Tables for the balanced score: the four metric columns, each absent or  *)
(* holding numbers and NaN.                                                *)
(***************************************************************************)
\* Most rows of a table that holds all four metric columns.
MaxScoreRows == 2

\* Rows of the tables that hold two metric columns.
ScoreRowsWide == 3

MetricColumns == [i \in 1..Len(METRICS) |-> METRICS[i].col]

ScoreCells == {NaN, Float(1, 1, 0), Float(2, 1, 0)}

ScoreTables(maxRows, wideRows) ==
  UNION { { TableOf(MetricColumns, <<a, b, c, d>>) :
              a \in {Absent} \cup [1..n -> ScoreCells],
              b \in {Absent} \cup [1..n -> ScoreCells],
              c \in {Absent} \cup [1..n -> ScoreCells],
              d \in [1..n -> ScoreCells] }
          : n \in 1..maxRows }
  \cup { TableOf(MetricColumns, <<a, Absent, Absent, d>>) :
           a \in [1..wideRows -> ScoreCells \cup {Float(5, 2, 0)}],
           d \in [1..wideRows -> ScoreCells] }

InitScore ==
  /\ pc = "add_engine_features"
  /\ arg \in ScoreTables(MaxScoreRows, ScoreRowsWide)
  /\ ret = NoValue

SpecScore == InitScore /\ [][NextFeatures]_vars

(***************************************************************************)
(* Properties of add_engine_features.                                      *)
(***************************************************************************)
Returned == pc = "featured" /\ ~Raised(ret)

\* The cell of column c on row i, or None when the table has no column c.
CellOr(df, c, i) == IF HasCol(df, c) THEN Col(df, c)[i] ELSE None

IsPositive(x) == IsNum(x) /\ x.n > 0

\* Bore, stroke and cylinder count of row i are present and positive.
FormulaApplies(i) ==
  /\ IsPositive(Col(ret, "bore_mm")[i])
  /\ IsPositive(Col(ret, "stroke_mm")[i])
  /\ IsPositive(CellOr(arg, "number_of_cylinders", i))

\* pi * (bore / 2)^2 * stroke * cylinders / 1000000 for row i.
ClosedForm(i) ==
  LET b == Col(ret, "bore_mm")[i]
      t == Col(ret, "stroke_mm")[i]
      c == Col(arg, "number_of_cylinders")[i]
  IN  Float(b.n * b.n * t.n * c.n, 4 * b.d * b.d * t.d * c.d * 1000000, 1)

\* capacity_cm3 of row i as a number, or NaN when there is none.
Capacity(i) == ToFloat(to_numeric_cell(CellOr(arg, "capacity_cm3", i)))

\* C7: displacement_l is the closed-form cylinder volume exactly when
\* bore_mm, stroke_mm and the cylinder count are all present and strictly
\* positive; otherwise it is capacity_cm3 / 1000 when a capacity is
\* available and missing when none is.
C7_DisplacementFormulaOrCapacity ==
  Returned =>
    \A i \in 1..NRows(arg) :
      LET disp == Col(ret, "displacement_l")[i]
      IN  IF FormulaApplies(i) THEN disp = ClosedForm(i)
          ELSE IF IsNum(Capacity(i))
            THEN disp = Float(Capacity(i).n, Capacity(i).d * 1000, 0)
            ELSE IsMissing(disp)

\* A table with a row whose displacement is the closed form, and a row
\* without a stroke whose displacement is its capacity in litres.
C7_Witness ==
  /\ Returned
  /\ NRows(arg) = 2
  /\ FormulaApplies(1)
  /\ Col(ret, "displacement_l")[1] = Float(8, 25, 1)
  /\ ~FormulaApplies(2)
  /\ IsMissing(Col(ret, "stroke_mm")[2])
  /\ Col(ret, "displacement_l")[2] = Float(999, 500, 0)

\* C8: hp_per_liter is missing whenever displacement_l is zero or missing or
\* engine_hp is missing, and is engine_hp / displacement_l otherwise.
C8_PowerDensityMissingOnZero ==
  (Returned /\ HasCol(arg, "engine_hp")) =>
    \A i \in 1..NRows(arg) :
      LET disp == Col(ret, "displacement_l")[i]
          hp == Col(arg, "engine_hp")[i]
          hpl == Col(ret, "hp_per_liter")[i]
      IN  IF IsMissing(disp) \/ IsMissing(hp) \/ (IsNum(disp) /\ disp.n = 0)
            THEN IsMissing(hpl)
            ELSE hpl = Float(hp.n * disp.d, hp.d * disp.n, -disp.p)

Contains(s, sub) ==
  \E i \in 1..(Len(s) - Len(sub) + 1) : SubSeq(s, i, i + Len(sub) - 1) = sub

RECURSIVE JoinWith(_, _)
\* The texts of a sequence joined by sep.
JoinWith(parts, sep) ==
  IF Len(parts) = 1 THEN parts[1]
  ELSE parts[1] \o sep \o JoinWith(Tail(parts), sep)

Toyota_I4_Inline_4_2_0L ==
  << "T", "o", "y", "o", "t", "a", " ", "I", "4", " ",
     "I", "n", "l", "i", "n", "e", " ", "4", " ", "2", ".", "0", "L" >>

\* C10: engine_signature is make, engine type, cylinder layout, cylinder
\* count as text and displacement rounded to two decimals with the suffix
\* "L", joined by single spaces, with no "nan" substring, no doubled space
\* and no surrounding whitespace; Toyota, I4, Inline, 4 cylinders and 2.0
\* litres give exactly "Toyota I4 Inline 4 2.0L".
C10_SignatureSingleSpaced ==
  Returned =>
    \A i \in 1..NRows(arg) :
      LET sig == Col(ret, "engine_signature")[i].s
          make == CellOr(arg, "make", i)
          type == CellOr(arg, "engine_type", i)
          layout == CellOr(arg, "cylinder_layout", i)
          cyl == CellOr(arg, "number_of_cylinders", i)
          disp == Col(ret, "displacement_l")[i]
      IN  /\ ~Contains(sig, <<"n", "a", "n">>)
          /\ ~Contains(sig, <<" ", " ">>)
          /\ sig = strip(sig)
          /\ (IsText(make) /\ IsText(type) /\ IsText(layout) /\ IsNum(cyl) /\ IsNum(disp)) =>
               sig = JoinWith(<<strip(make.s), strip(type.s), strip(layout.s),
                                CellStr(cyl), CellStr(Round2(disp)) \o <<"L">> >>, <<" ">>)
          /\ (/\ make = Text(Toyota) /\ type = TI4 /\ layout = TInline
              /\ SameNumber(cyl, Int64(4)) /\ SameNumber(disp, Int64(2))) =>
               sig = Toyota_I4_Inline_4_2_0L

\* C9: balanced_score is the unweighted mean of the signed z-scores of
\* exactly the metrics that are not missing in the record; a record that
\* misses all four metrics has a missing balanced_score.
C9_ScoreOverPresentMetrics ==
  Returned =>
    \A i \in 1..NRows(arg) :
      LET present == SelectSeq(METRICS,
                       LAMBDA mt : HasCol(arg, mt.col) /\ IsNum(Col(arg, mt.col)[i]))
          signed == [j \in 1..Len(present) |->
                       ZScores(Col(arg, present[j].col), present[j].weight)[i]]
          score == Col(ret, "balanced_score")[i]
      IN  IF present = <<>> THEN IsMissing(score)
          ELSE score = SurdDiv(SurdSum(signed), Len(present))

(***************************************************************************)
(* label_clusters (app/utils.py).  A centroid is the tuple of its four     *)
(* standardized coordinates in the order of the features list, engine_hp,  *)
(* acceleration, fuel consumption, cylinders, each counted in tenths.      *)
(***************************************************************************)
FEATURES ==
  << "engine_hp", "acceleration_0_100_km_h_s",
     "mixed_fuel_consumption_per_100_km_l", "number_of_cylinders" >>

\* feature_idx[name] + 1: the place of a feature in a centroid.
feature_idx(name) == CHOOSE i \in 1..Len(FEATURES) : FEATURES[i] = name

\* The if / elif chain of lines 96-105 on one centroid; the thresholds are
\* -0.5, 0.7, -0.3 and 0.6 in tenths.
LabelOfMutant(center) ==
  LET hp == center[feature_idx("engine_hp")]
      accel == center[feature_idx("acceleration_0_100_km_h_s")]
      fuel == center[feature_idx("mixed_fuel_consumption_per_100_km_l")]
      cylinders == center[feature_idx("number_of_cylinders")]
  IN  IF hp > 7 THEN "High Power"
      ELSE IF fuel < -5 THEN "Efficient"
      ELSE IF accel < -3 THEN "Quick Accel"
      ELSE IF cylinders > 6 THEN "Big Cyl"
      ELSE "Balanced"
LabelOf(center) ==
  LET hp == center[feature_idx("engine_hp")]
      accel == center[feature_idx("acceleration_0_100_km_h_s")]
      fuel == center[feature_idx("mixed_fuel_consumption_per_100_km_l")]
      cylinders == center[feature_idx("number_of_cylinders")]
  IN  IF fuel < -5 THEN "Efficient"
      ELSE IF hp > 7 THEN "High Power"
      ELSE IF accel < -3 THEN "Quick Accel"
      ELSE IF cylinders > 6 THEN "Big Cyl"
      ELSE "Balanced"

\* label_clusters(centers, features): the dict from centroid index to label.
label_clusters(centers) ==
  [idx \in 0..(Len(centers) - 1) |-> LabelOf(centers[idx + 1])]

\* Most centroids of a matrix.
MaxCenters == 3

\* The centroid with fuel = -1.0 and every other coordinate 0.
FuelOnly == <<0, 0, -10, 0>>

\* Centroids on both sides of every threshold, and the two plain ones.
Centers ==
  ({7, 8} \X {-4, -3} \X {-10, -5} \X {6, 7}) \cup {FuelOnly, <<0, 0, 0, 0>>}

CenterMatrices(maxK) == UNION { [1..k -> Centers] : k \in 1..maxK }

InitLabel ==
  /\ pc = "label_clusters"
  /\ arg \in CenterMatrices(MaxCenters)
  /\ ret = NoValue

LabelClusters ==
  /\ pc = "label_clusters"
  /\ ret' = label_clusters(arg)
  /\ pc' = "labelled"
  /\ UNCHANGED arg

NextLabel == LabelClusters

SpecLabel == InitLabel /\ [][NextLabel]_vars

\* C11: every centroid index 0..k-1 gets exactly one label, the one of the
\* first rule that matches in the order fuel < -0.5 (Efficient), horsepower
\* > 0.7 (High Power), acceleration < -0.3 (Quick Accel), cylinders > 0.6
\* (Big Cyl), else Balanced, all comparisons strict; a centroid with fuel
\* -1.0 and zeros elsewhere is Efficient whatever k and the other centroids.
C11_FirstMatchingRule ==
  pc = "labelled" =>
    /\ DOMAIN ret = 0..(Len(arg) - 1)
    /\ \A idx \in DOMAIN ret :
         LET c == arg[idx + 1]
             efficient == c[3] < -5
             power == c[1] > 7
             quick == c[2] < -3
             big == c[4] > 6
         IN  /\ (ret[idx] = "Efficient") <=> efficient
             /\ (ret[idx] = "High Power") <=> (~efficient /\ power)
             /\ (ret[idx] = "Quick Accel") <=> (~efficient /\ ~power /\ quick)
             /\ (ret[idx] = "Big Cyl") <=> (~efficient /\ ~power /\ ~quick /\ big)
             /\ (ret[idx] = "Balanced") <=> (~efficient /\ ~power /\ ~quick /\ ~big)
             /\ (c = FuelOnly) => ret[idx] = "Efficient"

\* Three centroids labelled: the fuel-only one, one that matches both the
\* fuel and the horsepower rule, and one exactly on every threshold.
C11_Witness ==
  /\ pc = "labelled"
  /\ arg = <<FuelOnly, <<8, -4, -10, 7>>, <<7, -3, -5, 6>>>>
  /\ ret[0] = "Efficient"
  /\ ret[1] = "Efficient"
  /\ ret[2] = "Balanced"

(***************************************************************************)
(* Data frames of the application (app/utils.py).  A frame has an index    *)
(* (the row labels that pandas keeps through filtering), column names and  *)
(* one sequence of cells per column.  Frames are objects: the state holds  *)
(* the sequence of the frames allocated so far, a frame is referred to by  *)
(* its place in it, and the canonical table of load_data is object 1.      *)
(***************************************************************************)
Frame(index, columns, data) == [index |-> index, columns |-> columns, data |-> data]

\* The places of a sequence of booleans that hold TRUE, in order.
Where(mask) == SelectSeq([i \in 1..Len(mask) |-> i], LAMBDA i : mask[i])

\* df[mask]: a new frame with the rows whose mask is True.
take(df, mask) ==
  LET keep == Where(mask)
  IN  Frame([j \in 1..Len(keep) |-> df.index[keep[j]]],
            df.columns,
            [c \in 1..Len(df.columns) |->
               [j \in 1..Len(keep) |-> df.data[c][keep[j]]]])

\* df[columns]: a new frame with the named columns.
project(df, columns) ==
  Frame(df.index, columns, [c \in 1..Len(columns) |-> Col(df, columns[c])])

\* df[c] = cells on the frame df: a new last column, or column c replaced.
assign(df, c, cells) ==
  IF HasCol(df, c)
    THEN [df EXCEPT !.data[ColIdx(df, c)] = cells]
    ELSE [df EXCEPT !.columns = Append(@, c), !.data = Append(@, cells)]

\* Series.isin(values) on one cell: a missing cell is in no list.
isin(cell, values) ==
  \E v \in values :
    IF IsNum(cell) /\ IsNum(v) THEN SameNumber(cell, v) ELSE cell = v

\* df.dropna() on the frame df: the rows without a missing cell.
dropna(df) ==
  take(df, [i \in 1..Len(df.index) |->
              \A c \in 1..Len(df.columns) : ~IsMissing(df.data[c][i])])

\* One filter of apply_filters (lines 49-54): the frame itself when the
\* selection is empty, KeyError when the frame has no such column.
FilterIsin(df, col, values) ==
  IF Raised(df) \/ values = {} THEN df
  ELSE IF ~HasCol(df, col) THEN Raise("KeyError")
  ELSE take(df, [i \in 1..Len(df.index) |-> isin(Col(df, col)[i], values)])

\* The year filter of lines 55-58; a missing year compares False.
FilterYears(df, years) ==
  IF Raised(df) \/ ~HasCol(df, "year") THEN df
  ELSE take(df, [i \in 1..Len(df.index) |->
                   LET y == Col(df, "year")[i]
                   IN  /\ IsNum(y)
                       /\ ~Less(y, Int64(years[1]))
                       /\ ~Less(Int64(years[2]), y)])

\* apply_filters(df, makes, years, engine_types, cylinders): the frame it
\* returns, a copy of df narrowed by each filter in turn.
apply_filters(df, makes, years, engine_types, cylinders) ==
  FilterYears(
    FilterIsin(
      FilterIsin(FilterIsin(df, "make", makes), "engine_type", engine_types),
      "number_of_cylinders", cylinders),
    years)

\* What KMeans and PCA hand back to compute_clusters for n complete rows and
\* k clusters (lines 70-78): a label in 0..k-1 and two coordinates per row,
\* and k centroids.  The fit is an input of the model, drawn from FitsOf.
Fit(labels, coords, centers) ==
  [labels |-> labels, coords |-> coords, centers |-> centers]

CenterList == <<FuelOnly, <<8, -3, -5, 6>>, <<7, -4, 0, 0>>, <<0, 0, 0, 7>>, <<0, 0, 0, 0>>>>

FitsOf(n, k) ==
  { Fit([i \in 1..n |-> (i + shift) % k],
        [i \in 1..n |-> <<i - shift, shift - i>>],
        [j \in 1..k |-> CenterList[((j + shift) % Len(CenterList)) + 1]]) :
      shift \in 0..1 }

ClusterColumns == <<"cluster_id", "pca_1", "pca_2", "cluster_name">>

\* compute_clusters(df, k) with the fit that sklearn returns: the frame it
\* returns, or the exception it raises.  StandardScaler rejects an empty
\* subset, KMeans fewer rows than clusters and PCA fewer rows than its two
\* components, each with ValueError.
compute_clusters(df, k, fit) ==
  IF \E f \in Range(FEATURES) : ~HasCol(df, f) THEN Raise("KeyError")
  ELSE
    LET subset == dropna(project(df, FEATURES))
        n == Len(subset.index)
    IN  IF n = 0 \/ n < k \/ n < 2 THEN Raise("ValueError")
        ELSE
          LET cluster_names == label_clusters(fit.centers)
              s1 == assign(subset, "cluster_id", [i \in 1..n |-> Int64(fit.labels[i])])
              s2 == assign(s1, "pca_1", [i \in 1..n |-> Float(fit.coords[i][1], 1, 0)])
              s3 == assign(s2, "pca_2", [i \in 1..n |-> Float(fit.coords[i][2], 1, 0)])
          IN  assign(s3, "cluster_name",
                     [i \in 1..n |-> Text(cluster_names[fit.labels[i]])])

\* The number of complete rows that compute_clusters would fit on.
CompleteRows(df) == Len(dropna(project(df, FEATURES)).index)

(***************************************************************************)
(* Calls of apply_filters and compute_clusters on the frames allocated so  *)
(* far.  arg is the sequence of frames (arg[1] is the canonical table) and *)
(* ret records the last call: the frame it was given, k, the centroids,    *)
(* and the frame it returned or the exception it raised.                   *)
(***************************************************************************)
Call(name, df, k, centers, out, exc) ==
  [call |-> name, df |-> df, k |-> k, centers |-> centers, out |-> out, exc |-> exc]

\* Where the frame a call returns lives: both functions build a new frame
\* (df.copy(), df[mask], df[features].dropna()) and return it.
StoreMutant(frames, ref, out) ==
  [frames |-> [frames EXCEPT ![ref] = out], out |-> ref]
Store(frames, ref, out) ==
  [frames |-> Append(frames, out), out |-> Len(frames) + 1]

\* Most rows of a canonical table, most frames allocated, most clusters.
MaxViewRows == 3
MaxViews == 3
MaxK == 2

MakeA == Text(<<"A">>)
MakeB == Text(<<"B">>)

\* Rows of a canonical table: make, engine_type, number_of_cylinders, year,
\* engine_hp, acceleration, fuel consumption.
ViewColumns ==
  << "make", "engine_type", "number_of_cylinders", "year" >> \o
  << "engine_hp", "acceleration_0_100_km_h_s", "mixed_fuel_consumption_per_100_km_l" >>

ViewRows ==
  << <<MakeA, TI4, Float(4, 1, 0), Int64(2000), Float(100, 1, 0), Float(9, 1, 0), Float(7, 1, 0)>>,
    <<MakeB, TI4, Float(4, 1, 0), Int64(2010), Float(150, 1, 0), Float(8, 1, 0), Float(8, 1, 0)>>,
    <<MakeA, NaN, NaN, Int64(2010), NaN, Float(9, 1, 0), Float(7, 1, 0)>> >>

\* The frame of a sequence of rows, indexed 0, 1, ...
FrameOfRows(rows) ==
  Frame([i \in 1..Len(rows) |-> i - 1], ViewColumns,
        [c \in 1..Len(ViewColumns) |-> [i \in 1..Len(rows) |-> rows[i][c]]])

\* Tables of up to maxRows rows, each one of rowKinds, grouped by kind.
CanonicalTables(rowKinds, maxRows) ==
  UNION { { FrameOfRows([i \in 1..n |-> rowKinds[kind[i]]]) :
              kind \in { f \in [1..n -> 1..Len(rowKinds)] :
                           \A i \in 1..(n - 1) : f[i] <= f[i + 1] } }
          : n \in 1..maxRows }

\* Filter selections: makes, years, engine_types, cylinders.
Selections ==
  { <<{}, <<2000, 2010>>, {}, {}>>,
    <<{MakeA}, <<2000, 2010>>, {TI4}, {}>>,
    <<{}, <<2010, 2010>>, {}, {Int64(4)}>> }

InitViews ==
  /\ pc = "loaded"
  /\ \E df \in CanonicalTables(ViewRows, MaxViewRows) : arg = <<df>>
  /\ ret = NoValue

ApplyFilters ==
  /\ Len(arg) < MaxViews
  /\ \E ref \in 1..Len(arg), sel \in Selections :
       LET out == apply_filters(arg[ref], sel[1], sel[2], sel[3], sel[4])
       IN  IF Raised(out)
             THEN /\ arg' = arg
                  /\ ret' = Call("apply_filters", ref, 0, <<>>, 0, out.exc)
             ELSE LET st == Store(arg, ref, out)
                  IN  /\ arg' = st.frames
                      /\ ret' = Call("apply_filters", ref, 0, <<>>, st.out, "")
  /\ pc' = "apply_filters"

ComputeClusters ==
  /\ Len(arg) < MaxViews
  /\ \E ref \in 1..Len(arg), k \in 1..MaxK :
       \E fit \in FitsOf(CompleteRows(arg[ref]), k) :
         LET out == compute_clusters(arg[ref], k, fit)
         IN  IF Raised(out)
               THEN /\ arg' = arg
                    /\ ret' = Call("compute_clusters", ref, k, <<>>, 0, out.exc)
               ELSE LET st == Store(arg, ref, out)
                    IN  /\ arg' = st.frames
                        /\ ret' = Call("compute_clusters", ref, k, fit.centers, st.out, "")
  /\ pc' = "compute_clusters"

NextViews == ApplyFilters \/ ComputeClusters

SpecViews == InitViews /\ [][NextViews]_vars

\* C12: no call of apply_filters or compute_clusters changes the canonical
\* table or the table it is given: no row, column or cell of it is added,
\* removed or modified, and cluster_id, the projection coordinates and
\* cluster_name are never columns of the canonical table.
C12_CanonicalTableUnchanged ==
  [][ /\ arg'[1] = arg[1]
      /\ arg'[ret'.df] = arg[ret'.df]
      /\ \A i \in 1..Len(arg) : arg'[i] = arg[i]
      /\ \A c \in Range(ClusterColumns) : ~HasCol(arg'[1], c) ]_vars

\* The canonical table was filtered to fewer rows, the view was clustered,
\* and the clustered view holds the cluster columns.
C12_Witness ==
  /\ Len(arg) = 3
  /\ ret.call = "compute_clusters"
  /\ ret.df = 2
  /\ ret.out = 3
  /\ Len(arg[2].index) < Len(arg[1].index)
  /\ \A c \in Range(ClusterColumns) : HasCol(arg[3], c) /\ ~HasCol(arg[1], c)
  /\ arg[1].columns = ViewColumns

(***************************************************************************)
(* Totality of the pipeline stages.                                        *)
(***************************************************************************)
\* C13: standardize_columns, coerce_numeric, clip_outliers and
\* add_engine_features never raise on malformed cell contents: whatever text,
\* numbers or missing values the cells hold (a text in cylinder_bore_mm or
\* capacity_cm3 included), the stage completes, keeps every row, and leaves
\* a missing marker where a parse or a derivation failed.
C13_StagesNeverRaise ==
  pc \in {"standardized", "coerced", "clipped", "featured"} =>
    /\ ~Raised(ret)
    /\ NRows(ret) = NRows(arg)
    /\ pc = "featured" =>
         \A i \in 1..NRows(arg) :
           LET disp == Col(ret, "displacement_l")[i]
           IN  IsNum(disp) \/ IsMissing(disp)

(***************************************************************************)
(* The view that compute_clusters returns.                                 *)
(***************************************************************************)
\* The index labels of the rows of df whose four features are all present.
CompleteIndex(df) ==
  { df.index[i] : i \in { j \in 1..Len(df.index) :
                           \A f \in Range(FEATURES) : ~IsMissing(Col(df, f)[j]) } }

\* C14: compute_clusters(table, k) returns the input view augmented: one row
\* for each input row whose four features are all present and no other row,
\* the columns of the input table, and on every row a cluster_id in 0..k-1,
\* two projection coordinates and the cluster_name that label_clusters gives
\* the row's cluster_id.
C14_ReturnsAugmentedView ==
  (pc = "compute_clusters" /\ ret.exc = "") =>
    LET in == arg[ret.df]
        out == arg[ret.out]
        names == label_clusters(ret.centers)
    IN  /\ Range(out.index) = CompleteIndex(in)
        /\ Len(out.index) = Cardinality(CompleteIndex(in))
        /\ Range(in.columns) \subseteq Range(out.columns)
        /\ \A c \in Range(ClusterColumns) : HasCol(out, c)
        /\ \A i \in 1..Len(out.index) :
             /\ Col(out, "cluster_id")[i].k = "int"
             /\ Col(out, "cluster_id")[i].n \in 0..(ret.k - 1)
             /\ IsNum(Col(out, "pca_1")[i])
             /\ IsNum(Col(out, "pca_2")[i])
             /\ Col(out, "cluster_name")[i] = Text(names[Col(out, "cluster_id")[i].n])

(***************************************************************************)
(* The Engine Clusters page (app/pages/4_Engine_Clusters.py): one run of   *)
(* the script.  arg[1] is the table of load_data and arg[2] the filtered   *)
(* view; ret records the call of compute_clusters.                         *)
(***************************************************************************)
\* The k of compute_clusters(filtered, k=4).
PageK == 4

\* Most rows of the table the page loads.
MaxPageRows == 5

\* The values of a column that are not missing (dropna().unique()).
Options(df, col) == { c \in Range(Col(df, col)) : ~IsMissing(c) }

\* cylinder_options: the cylinder counts as integers.
cylinder_options(df) == { Int64(c.n \div c.d) : c \in Options(df, "number_of_cylinders") }

\* min_year and max_year of the slider.
Years(df) == { c.n : c \in Options(df, "year") }
min_year(df) == CHOOSE y \in Years(df) : \A z \in Years(df) : y <= z
max_year(df) == CHOOSE y \in Years(df) : \A z \in Years(df) : z <= y

\* What the sidebar lets the user select: any of the makes, the engine types
\* and the cylinder counts of the table, and a range of its years.
PageSelections(df) ==
  { <<makes, <<lo, hi>>, engine_types, cylinders>> :
      makes \in SUBSET Options(df, "make"),
      lo \in {min_year(df), max_year(df)},
      hi \in {max_year(df)},
      engine_types \in {{}, Options(df, "engine_type")},
      cylinders \in {{}, cylinder_options(df)} }

InitPage ==
  /\ pc = "loaded"
  /\ \E df \in CanonicalTables(ViewRows, MaxPageRows) : arg = <<df>>
  /\ ret = NoValue

\* Line 25: filtered = apply_filters(df, ...).
PageFilter ==
  /\ pc = "loaded"
  /\ \E sel \in PageSelections(arg[1]) :
       arg' = Store(arg, 1, apply_filters(arg[1], sel[1], sel[2], sel[3], sel[4])).frames
  /\ pc' = "apply_filters"
  /\ UNCHANGED ret

\* Lines 27-36: st.stop() when the complete-feature subset is empty.
PageGuard ==
  /\ pc = "apply_filters"
  /\ pc' = IF CompleteRows(arg[2]) = 0 THEN "stopped" ELSE "guard_passed"
  /\ UNCHANGED <<arg, ret>>

\* Line 38: clustered = compute_clusters(filtered, k=4).
PageCluster ==
  /\ pc = "guard_passed"
  /\ \E fit \in FitsOf(CompleteRows(arg[2]), PageK) :
       LET out == compute_clusters(arg[2], PageK, fit)
       IN  IF Raised(out)
             THEN /\ arg' = arg
                  /\ ret' = Call("compute_clusters", 2, PageK, <<>>, 0, out.exc)
             ELSE LET st == Store(arg, 2, out)
                  IN  /\ arg' = st.frames
                      /\ ret' = Call("compute_clusters", 2, PageK, fit.centers, st.out, "")
  /\ pc' = "compute_clusters"

NextPage == PageFilter \/ PageGuard \/ PageCluster

SpecPage == InitPage /\ [][NextPage]_vars

\* C15: compute_clusters(filtered, k=4) is invoked only when the guard has
\* passed, and whenever it is invoked the filtered view holds at least k rows
\* with all four clustering features present, so that the clustering step
\* does not fail for lack of samples.
C15_GuardEnsuresEnoughRows ==
  /\ pc \in {"guard_passed", "compute_clusters"} => CompleteRows(arg[2]) >= PageK
  /\ pc = "compute_clusters" => ret.df = 2 /\ ret.k = PageK /\ ret.exc = ""

====
